---- MODULE Spec2Model ----
(***************************************************************************)
(* Model of src/index.js: the WhatsAppGroupManager orchestration layer.    *)
(* One Node.js process, one event loop.  Every action below is one turn of *)
(* the event loop (a callback, or the continuation of an await), run to    *)
(* its next suspension point.  The session-client library, the database    *)
(* initialiser, the HTTP server and the handler modules are external: the  *)
(* model draws their outcomes (resolve / reject / throw, which event is    *)
(* emitted next) nondeterministically.                                     *)
(***************************************************************************)
EXTENDS Integers, Sequences, FiniteSets, TLC

\* ---------------------------------------------------------------- bounds
MaxSignals == 2      \* termination signals delivered in one run
MaxEvents == 2       \* inbound events emitted in one run

\* ------------------------------------------------------------- vocabulary
NoExit == -1
NoResponse == [client |-> "none", answer |-> "none"]
InboundKinds == {"message", "group_join", "group_leave"}
ClientStates == {"new", "initializing", "qr", "authenticated", "ready",
                 "auth_failure", "disconnected", "destroying"}

VARIABLES
    startPc,       \* where start() is: "awaitDb", "awaitInit", "done", "failed"
    dbState,       \* initDatabase() promise: "pending", "resolved", "rejected"
    calls,         \* the calls start() has made to its collaborators, in order
    http,          \* HTTP server: "none", "binding", "listening", "bindFailed"
    initState,     \* initialize() promise: "none", "pending", "resolved", "rejected"
    client,        \* session-client state as seen from outside (ClientStates)
    signals,       \* number of termination signals whose handler has run
    stopCalls,     \* number of stop() invocations
    destroyCalls,  \* number of this.client.destroy() calls
    stopResults,   \* how each finished stop() completed, in completion order
    emitted,       \* number of inbound events the session client has emitted
    handlerCalls,  \* number of external inbound-handler invocations
    running,       \* kinds of the inbound callbacks suspended on their handler,
                   \* in the order they began
    afterFailure,  \* an inbound event was dispatched after a caught failure
    lifecycle,     \* results of the lifecycle callbacks run so far
    resp,          \* the last GET / response served, with the client state then
    log,           \* set of console messages written so far
    exitCode,      \* process exit status, NoExit while running
    exitBy         \* what ended the process

vars == <<startPc, dbState, calls, http, initState,
          client, signals, stopCalls, destroyCalls, stopResults,
          emitted, handlerCalls, running, afterFailure, lifecycle, resp, log, exitCode, exitBy>>

startVars == <<startPc, dbState, http, initState>>
stopVars == <<signals, stopCalls, destroyCalls, stopResults>>
eventVars == <<emitted, handlerCalls, running, afterFailure>>
exitVars == <<exitCode, exitBy>>

Alive == exitCode = NoExit

\* How many times start() has called a collaborator so far.
Count(name) == Cardinality({i \in 1..Len(calls) : calls[i] = name})

listenCalls == Count("app.listen")
initCalls == Count("client.initialize")
schedStarts == Count("startScheduledTasks")

\* process.exit(code): the process ends at once, nothing runs afterwards.
ProcessExit(code, by) ==
    /\ exitCode' = code
    /\ exitBy' = by

\* Lines 164-167: the module body ran to completion: the signal handlers are
\* registered, the bot is constructed (callbacks bound, routes mounted),
\* global.bot is set and start() is suspended at `await initDatabase()`.
Init ==
    /\ startPc = "awaitDb"
    /\ dbState = "pending"
    /\ calls = <<"initDatabase">>
    /\ http = "none"
    /\ initState = "none"
    /\ client = "new"
    /\ signals = 0
    /\ stopCalls = 0
    /\ destroyCalls = 0
    /\ stopResults = <<>>
    /\ emitted = 0
    /\ handlerCalls = 0
    /\ running = <<>>
    /\ afterFailure = FALSE
    /\ lifecycle = {}
    /\ resp = NoResponse
    /\ log = {}
    /\ exitCode = NoExit
    /\ exitBy = "none"

\* ------------------------------------------------------------------ start()
\* A catch block that logs but forgets process.exit(1).
StartCatch_NoExit(logSoFar) ==
    /\ startPc' = "failed"
    /\ log' = logSoFar \cup {"Failed to start bot"}
    /\ UNCHANGED exitVars

\* Lines 131-134: the catch block of start(): log, then process.exit(1).
StartCatch(logSoFar) ==
    /\ startPc' = "failed"
    /\ log' = logSoFar \cup {"Failed to start bot"}
    /\ ProcessExit(1, "start_catch")

\* The two stages swapped: the session client is initialised before the
\* HTTP listener is opened.
StartListenAndInitialize_InitFirst(listenThrows, logSoFar) ==
    /\ calls' = calls \o <<"client.initialize", "app.listen">>
    /\ initState' = "pending"
    /\ client' = "initializing"
    /\ IF listenThrows
       THEN /\ StartCatch(logSoFar)
            /\ UNCHANGED http
       ELSE /\ http' = "binding"
            /\ startPc' = "awaitInit"
            /\ log' = logSoFar
            /\ UNCHANGED exitVars

\* Lines 119-127, the part of the try block between the two awaits:
\* this.app.listen(port, cb) and then this.client.initialize(), in one turn.
\* app.listen can throw synchronously (a port out of range); a port that is
\* merely taken is reported later by the server, see HttpBindError.
StartListenAndInitialize(listenThrows, logSoFar) ==
    IF listenThrows
    THEN /\ calls' = Append(calls, "app.listen")
         /\ StartCatch(logSoFar)
         /\ UNCHANGED <<http, initState, client>>
    ELSE /\ calls' = calls \o <<"app.listen", "client.initialize">>
         /\ http' = "binding"
         /\ initState' = "pending"
         /\ client' = "initializing"
         /\ startPc' = "awaitInit"
         /\ log' = logSoFar
         /\ UNCHANGED exitVars

\* Lines 116-127: `await initDatabase()` resolves and start() runs on to its
\* second await.
InitDatabaseResolved ==
    /\ Alive
    /\ startPc = "awaitDb"
    /\ dbState' = "resolved"
    /\ \E listenThrows \in BOOLEAN :
          StartListenAndInitialize(listenThrows, log \cup {"Database initialized"})
    /\ UNCHANGED <<lifecycle, resp>>
    /\ UNCHANGED stopVars
    /\ UNCHANGED eventVars

\* Lines 116, 131-134: `await initDatabase()` rejects.
InitDatabaseRejected ==
    /\ Alive
    /\ startPc = "awaitDb"
    /\ dbState' = "rejected"
    /\ StartCatch(log)
    /\ UNCHANGED <<calls, http, initState, client, lifecycle, resp>>
    /\ UNCHANGED stopVars
    /\ UNCHANGED eventVars

\* Lines 127-130: `await this.client.initialize()` resolves; start() calls
\* automationHandler.startScheduledTasks, which may throw inside the try.
ClientInitializeResolved ==
    /\ Alive
    /\ startPc = "awaitInit"
    /\ initState' = "resolved"
    /\ calls' = Append(calls, "startScheduledTasks")
    /\ \E tasksThrow \in BOOLEAN :
          IF tasksThrow
          THEN StartCatch(log)
          ELSE /\ startPc' = "done"
               /\ UNCHANGED log
               /\ UNCHANGED exitVars
    /\ UNCHANGED <<dbState, http, client, lifecycle, resp>>
    /\ UNCHANGED stopVars
    /\ UNCHANGED eventVars

\* A rejection of initialize() that is swallowed: start() carries on to the
\* scheduled tasks as if the client had come up.
ClientInitializeRejected_Swallowed ==
    /\ Alive
    /\ startPc = "awaitInit"
    /\ initState' = "rejected"
    /\ calls' = Append(calls, "startScheduledTasks")
    /\ startPc' = "done"
    /\ UNCHANGED <<dbState, http, client, lifecycle, resp, log>>
    /\ UNCHANGED stopVars
    /\ UNCHANGED eventVars
    /\ UNCHANGED exitVars

\* Lines 127, 131-134: `await this.client.initialize()` rejects.
ClientInitializeRejected ==
    /\ Alive
    /\ startPc = "awaitInit"
    /\ initState' = "rejected"
    /\ StartCatch(log)
    /\ UNCHANGED <<dbState, calls, http, client, lifecycle, resp>>
    /\ UNCHANGED stopVars
    /\ UNCHANGED eventVars

\* ------------------------------------------------------------- HTTP server
\* Lines 121-124: the server bound its port; the listen callback logs.
HttpListening ==
    /\ Alive
    /\ http = "binding"
    /\ http' = "listening"
    /\ log' = log \cup {"Web dashboard running"}
    /\ UNCHANGED <<startPc, dbState, calls, initState, client, lifecycle, resp>>
    /\ UNCHANGED stopVars
    /\ UNCHANGED eventVars
    /\ UNCHANGED exitVars

\* Line 121: the server could not bind (port taken).  The server reports it
\* in a later turn, outside start()'s try block, which registered no error
\* listener.  Depending on the express version the error either surfaces as
\* an uncaught 'error' event, which ends the process with status 1, or is
\* passed to the listen callback, which logs its usual lines and returns.
HttpBindError ==
    /\ Alive
    /\ http = "binding"
    /\ http' = "bindFailed"
    /\ \E uncaught \in BOOLEAN :
          IF uncaught
          THEN /\ ProcessExit(1, "uncaught")
               /\ UNCHANGED log
          ELSE /\ log' = log \cup {"Web dashboard running"}
               /\ UNCHANGED exitVars
    /\ UNCHANGED <<startPc, dbState, calls, initState, client, lifecycle, resp>>
    /\ UNCHANGED stopVars
    /\ UNCHANGED eventVars

\* Lines 53-59: the route handler of GET /: res.json of a literal.
RootBody ==
    [status |-> "WhatsApp Group Manager Bot is running",
     version |-> "1.0.0",
     dashboard |-> "/dashboard"]

\* A status endpoint that reports the session client's readiness.
RootResponse_ByClient(clientState) ==
    IF clientState = "ready"
    THEN [code |-> 200, body |-> RootBody]
    ELSE [code |-> 503,
          body |-> [RootBody EXCEPT !.status = "WhatsApp client is not connected"]]

RootResponse(clientState) == [code |-> 200, body |-> RootBody]

\* Lines 45-59: a GET / request is served while the server listens: the
\* middleware passes it on and the route handler answers.
GetRoot ==
    /\ Alive
    /\ http = "listening"
    /\ resp' = [client |-> client, answer |-> RootResponse(client)]
    /\ UNCHANGED <<calls, client, lifecycle, log>>
    /\ UNCHANGED startVars
    /\ UNCHANGED stopVars
    /\ UNCHANGED eventVars
    /\ UNCHANGED exitVars

\* ------------------------------------------------------- stop() and signals
\* A stop() whose catch block logs and rethrows.
StopCompletion_Rethrow(destroyOutcome) ==
    IF destroyOutcome = "resolve"
    THEN [result |-> "returned", logged |-> "Bot stopped gracefully"]
    ELSE [result |-> "rejected", logged |-> "Error stopping bot"]

\* Lines 137-144: what stop() does once this.client.destroy() has settled:
\* either way it logs and returns normally.
StopCompletion(destroyOutcome) ==
    IF destroyOutcome = "resolve"
    THEN [result |-> "returned", logged |-> "Bot stopped gracefully"]
    ELSE [result |-> "returned", logged |-> "Error stopping bot"]

\* Lines 148-152 and 156-160: a signal handler runs up to its await:
\* global.bot is set (line 166), so it calls stop(), which calls
\* this.client.destroy() and suspends.
SignalHandler(sig) ==
    /\ Alive
    /\ signals < MaxSignals
    /\ signals' = signals + 1
    /\ log' = log \cup {"Shutting down bot..."}
    /\ stopCalls' = stopCalls + 1
    /\ destroyCalls' = destroyCalls + 1
    /\ client' = "destroying"
    /\ UNCHANGED <<calls, stopResults, lifecycle, resp>>
    /\ UNCHANGED startVars
    /\ UNCHANGED eventVars
    /\ UNCHANGED exitVars

OnSIGINT == SignalHandler("SIGINT")

OnSIGTERM == SignalHandler("SIGTERM")

\* Lines 139-143 and 153 / 161: a pending destroy() settles, stop() completes
\* and the signal handler that awaited it goes on to process.exit(0).  Had
\* stop() rejected, the handler's own promise would reject with nothing to
\* catch it, and the unhandled rejection would end the process with status 1.
DestroySettled ==
    /\ Alive
    /\ Len(stopResults) < destroyCalls
    /\ \E outcome \in {"resolve", "reject"} :
          LET c == StopCompletion(outcome) IN
            /\ stopResults' = Append(stopResults, c.result)
            /\ log' = log \cup {c.logged}
            /\ IF c.result = "returned"
               THEN ProcessExit(0, "signal")
               ELSE ProcessExit(1, "unhandledRejection")
    /\ UNCHANGED <<signals, stopCalls, destroyCalls, calls, client, lifecycle, resp>>
    /\ UNCHANGED startVars
    /\ UNCHANGED eventVars

\* ------------------------------------------------- lifecycle callbacks
\* What the session client's `info` can look like when `ready` is emitted:
\* the library sets it, the callback only reads it.
InfoShapes == {"populated", "noWid", "undefined"}

\* Lines 63-66.
QrCallback == [threw |-> FALSE, logged |-> {"QR Code received"}]

\* Lines 68-72: two plain log lines, then `this.client.info.wid.user` is
\* read: a property access on undefined raises a TypeError.
ReadyCallback(info) ==
    [threw |-> info # "populated",
     logged |-> IF info = "populated"
                THEN {"Bot is ready", "Bot Name", "Connected as"}
                ELSE {"Bot is ready", "Bot Name"}]

\* Lines 74-76.
AuthenticatedCallback == [threw |-> FALSE, logged |-> {"Authentication successful"}]

\* Lines 78-80.
AuthFailureCallback == [threw |-> FALSE, logged |-> {"Authentication failed"}]

\* Lines 82-84.
DisconnectedCallback == [threw |-> FALSE, logged |-> {"Client was logged out"}]

\* Lifecycle callbacks that reconnect: after `auth_failure` or `disconnected`
\* the session client is initialised again.
EmitLifecycle_Reconnect(event, from, to, cb) ==
    /\ Alive
    /\ initCalls > 0
    /\ client \in from
    /\ client' = IF event \in {"auth_failure", "disconnected"} THEN "initializing" ELSE to
    /\ calls' = IF event \in {"auth_failure", "disconnected"}
                THEN Append(calls, "client.initialize")
                ELSE calls
    /\ lifecycle' = lifecycle \cup {[event |-> event, threw |-> cb.threw]}
    /\ log' = log \cup cb.logged
    /\ UNCHANGED resp
    /\ UNCHANGED startVars
    /\ UNCHANGED stopVars
    /\ UNCHANGED eventVars
    /\ UNCHANGED exitVars

\* The session client emits a lifecycle event: the bound callback runs, and
\* the client is from then on in the state the event announces.
EmitLifecycle(event, from, to, cb) ==
    /\ Alive
    /\ initCalls > 0
    /\ client \in from
    /\ client' = to
    /\ lifecycle' = lifecycle \cup {[event |-> event, threw |-> cb.threw]}
    /\ log' = log \cup cb.logged
    /\ UNCHANGED <<calls, resp>>
    /\ UNCHANGED startVars
    /\ UNCHANGED stopVars
    /\ UNCHANGED eventVars
    /\ UNCHANGED exitVars

EmitQr == EmitLifecycle("qr", {"initializing"}, "qr", QrCallback)

EmitAuthenticated ==
    EmitLifecycle("authenticated", {"initializing", "qr"}, "authenticated",
                  AuthenticatedCallback)

EmitAuthFailure ==
    EmitLifecycle("auth_failure", {"initializing", "qr"}, "auth_failure",
                  AuthFailureCallback)

EmitReady ==
    \E info \in InfoShapes :
        EmitLifecycle("ready", {"authenticated"}, "ready", ReadyCallback(info))

EmitDisconnected ==
    EmitLifecycle("disconnected", {"authenticated", "ready"}, "disconnected",
                  DisconnectedCallback)

\* --------------------------------------------------- inbound callbacks
ErrorLog(kind) ==
    CASE kind = "message" -> "Error handling message"
      [] kind = "group_join" -> "Error handling new member"
      [] kind = "group_leave" -> "Error handling member leave"

ErrorLogs == {ErrorLog(k) : k \in InboundKinds}

\* A callback without the try/catch: the handler's failure escapes it.
InboundCompletion_NoCatch(kind, outcome) ==
    IF outcome = "resolve"
    THEN [st |-> "done", logged |-> {}]
    ELSE [st |-> "unhandled", logged |-> {}]

\* Lines 88-92, 97-101, 105-109: the try/catch around the awaited handler.
\* outcome is how the external handler ended: "resolve", "reject" (its
\* promise rejected) or "throw" (it threw before returning a promise).
\* The callback logs nothing when the handler succeeds.
InboundCompletion(kind, outcome) ==
    IF outcome = "resolve"
    THEN [st |-> "done", logged |-> {}]
    ELSE [st |-> "caught", logged |-> {ErrorLog(kind)}]

\* A failure that escaped the callback would reject the promise of the async
\* callback, which nothing handles: the process would end with status 1.
InboundEffect(c) ==
    /\ log' = log \cup c.logged
    /\ IF c.st \in {"running", "done", "caught"}
       THEN UNCHANGED exitVars
       ELSE ProcessExit(1, "unhandledRejection")

\* A callback bound twice to its event: one emission, two handler invocations.
InboundCallback_Twice(kind) ==
    /\ Alive
    /\ initCalls > 0
    /\ emitted < MaxEvents
    /\ emitted' = emitted + 1
    /\ handlerCalls' = handlerCalls + 2
    /\ afterFailure' = (afterFailure \/ log \cap ErrorLogs # {})
    /\ running' = running \o <<kind, kind>>
    /\ UNCHANGED <<calls, client, lifecycle, resp, log>>
    /\ UNCHANGED startVars
    /\ UNCHANGED stopVars
    /\ UNCHANGED exitVars

\* Lines 87-110: the session client emits an inbound event; the callback
\* invokes the external handler at once and suspends on its promise, unless
\* the handler throws synchronously.
InboundCallback(kind) ==
    /\ Alive
    /\ initCalls > 0
    /\ emitted < MaxEvents
    /\ emitted' = emitted + 1
    /\ handlerCalls' = handlerCalls + 1
    /\ afterFailure' = (afterFailure \/ log \cap ErrorLogs # {})
    /\ \E throws \in BOOLEAN :
          LET c == IF throws THEN InboundCompletion(kind, "throw")
                             ELSE [st |-> "running", logged |-> {}] IN
            /\ running' = IF c.st = "running" THEN Append(running, kind) ELSE running
            /\ InboundEffect(c)
    /\ UNCHANGED <<calls, client, lifecycle, resp>>
    /\ UNCHANGED startVars
    /\ UNCHANGED stopVars

OnMessage == InboundCallback("message")

OnGroupJoin == InboundCallback("group_join")

OnGroupLeave == InboundCallback("group_leave")

Remove(seq, i) == [j \in 1..(Len(seq) - 1) |-> IF j < i THEN seq[j] ELSE seq[j + 1]]

\* Lines 89-92, 98-101, 106-109: the promise of a running handler settles,
\* the callback that awaited it resumes and finishes.
HandlerSettled ==
    /\ Alive
    /\ \E i \in 1..Len(running) : \E outcome \in {"resolve", "reject"} :
          /\ running' = Remove(running, i)
          /\ InboundEffect(InboundCompletion(running[i], outcome))
    /\ UNCHANGED <<emitted, handlerCalls, afterFailure, calls, client, lifecycle, resp>>
    /\ UNCHANGED startVars
    /\ UNCHANGED stopVars

\* ------------------------------------------------------------ specification
Next ==
    \/ InitDatabaseResolved
    \/ InitDatabaseRejected
    \/ ClientInitializeResolved
    \/ ClientInitializeRejected
    \/ HttpListening
    \/ HttpBindError
    \/ GetRoot
    \/ OnSIGINT
    \/ OnSIGTERM
    \/ DestroySettled
    \/ EmitQr
    \/ EmitAuthenticated
    \/ EmitAuthFailure
    \/ EmitReady
    \/ EmitDisconnected
    \/ OnMessage
    \/ OnGroupJoin
    \/ OnGroupLeave
    \/ HandlerSettled

Spec == Init /\ [][Next]_vars

TypeOK ==
    /\ startPc \in {"awaitDb", "awaitInit", "done", "failed"}
    /\ dbState \in {"pending", "resolved", "rejected"}
    /\ http \in {"none", "binding", "listening", "bindFailed"}
    /\ initState \in {"none", "pending", "resolved", "rejected"}
    /\ client \in ClientStates
    /\ exitCode \in {NoExit, 0, 1}
    /\ signals \in 0..MaxSignals
    /\ emitted \in 0..MaxEvents
    /\ Len(running) <= emitted

\* ------------------------------------------------------------------ claims
StartupOrder == <<"initDatabase", "app.listen", "client.initialize", "startScheduledTasks">>

IsPrefix(p, q) == Len(p) <= Len(q) /\ \A i \in 1..Len(p) : p[i] = q[i]

\* C1: a failure of an external inbound handler (message, group_join,
\* group_leave) is caught inside the callback: the process never ends because
\* of it, and every emitted event, also one emitted after a failure, is handed
\* to its handler.
C1_HandlerFailureContained ==
    /\ exitBy # "unhandledRejection"
    /\ handlerCalls = emitted
    /\ (log \cap ErrorLogs # {} /\ ~Alive) => exitBy \in {"start_catch", "signal", "uncaught"}

\* C1 witness: a handler failure was caught and logged, a later event was
\* dispatched all the same, its handler is running and the process is alive.
C1_Witness ==
    /\ afterFailure
    /\ Alive
    /\ handlerCalls = 2
    /\ Len(running) = 1

\* C2: when initDatabase() rejects, the process exits with status 1 and
\* neither app.listen nor client.initialize() nor startScheduledTasks has
\* been called; the HTTP server never binds.
C2_DbFailureIsFatal ==
    dbState = "rejected" =>
        /\ exitCode = 1
        /\ listenCalls = 0
        /\ http = "none"
        /\ initCalls = 0
        /\ schedStarts = 0

\* C2 witness: initDatabase() has rejected and the process is gone.
C2_Witness == dbState = "rejected" /\ ~Alive

\* C3: when the database came up and app.listen returned but
\* client.initialize() rejects, the process exits with status 1 through
\* start()'s catch block and startScheduledTasks is never called.
C3_InitFailureIsFatal ==
    initState = "rejected" =>
        /\ dbState = "resolved"
        /\ listenCalls = 1
        /\ exitCode = 1
        /\ exitBy = "start_catch"
        /\ schedStarts = 0

\* C3 witness: the HTTP server was listening when client.initialize() rejected.
C3_Witness == initState = "rejected" /\ http = "listening" /\ ~Alive

\* C4: once a SIGINT or SIGTERM has been delivered, the process exits with
\* status 0, whatever the startup sequence does in the meantime.
C4_SignalledExitIsZero ==
    (signals > 0 /\ ~Alive) => exitCode = 0

\* C5: over any sequence of signals stop() is invoked exactly once, and
\* client.destroy() at most once, before the process exits.
C5_StopInvokedOnce ==
    /\ stopCalls <= 1
    /\ destroyCalls <= 1
    /\ (signals > 0 => stopCalls = 1)

\* C6: start() calls its stages in the order database, HTTP, session client,
\* scheduled automation: app.listen only after initDatabase() resolved,
\* client.initialize() only after app.listen, startScheduledTasks only after
\* client.initialize() resolved.
C6_StartupOrder ==
    /\ IsPrefix(calls, StartupOrder)
    /\ listenCalls > 0 => dbState = "resolved"
    /\ initCalls > 0 => listenCalls > 0
    /\ schedStarts > 0 => initState = "resolved"

\* C6 witness: start() ran through all four stages and returned.
C6_Witness == calls = StartupOrder /\ startPc = "done"

\* C7: a failure of any startup stage, the HTTP listener failing to bind
\* included, goes through start()'s failure path: logged, the process exits
\* with a non-zero status, and the sequence does not go on to
\* client.initialize() and startScheduledTasks.
C7_EveryStartupFailureIsFatal ==
    /\ (dbState = "rejected" \/ initState = "rejected" \/ http = "bindFailed") =>
          /\ "Failed to start bot" \in log
          /\ exitBy = "start_catch"
          /\ exitCode = 1
          /\ schedStarts = 0
    /\ http = "bindFailed" => initCalls = 0

\* C8: none of the lifecycle callbacks (qr, ready, authenticated,
\* auth_failure, disconnected) ever throws, whatever the payload and the
\* client state, client.info not populated included.
C8_LifecycleCallbacksNeverThrow ==
    \A r \in lifecycle : ~r.threw

\* C9: stop() never rejects: whether client.destroy() resolves or rejects,
\* stop() returns normally to the signal handler that called it, which then
\* decides to exit.
C9_StopNeverRejects ==
    /\ \A i \in 1..Len(stopResults) : stopResults[i] = "returned"
    /\ Len(stopResults) > 0 => (exitBy = "signal" /\ exitCode = 0)

\* C9 witness: client.destroy() rejected, stop() logged it and returned.
C9_Witness ==
    /\ "Error stopping bot" \in log
    /\ stopResults = <<"returned">>

\* C10: while the HTTP server listens, GET / answers 200 with the body
\* {status, version, dashboard}, the same in every session-client state.
C10_RootIgnoresClientState ==
    resp # NoResponse =>
        /\ resp.answer.code = 200
        /\ DOMAIN resp.answer.body = {"status", "version", "dashboard"}
        /\ resp.answer.body.status = "WhatsApp Group Manager Bot is running"
        /\ resp.answer.body.version = "1.0.0"
        /\ resp.answer.body.dashboard = "/dashboard"

\* C10 witness: GET / was answered while the session client was logged out.
C10_Witness == resp # NoResponse /\ resp.client = "disconnected"

\* C11: every emitted inbound event causes at most one invocation of its
\* external handler, and the invocations begin in emission order: the step
\* that emits an event is the step that invokes its handler, once, and a
\* callback that suspends joins the end of the callbacks in flight; no other
\* step invokes a handler.
C11_OneInvocationInEmissionOrder ==
    [][/\ handlerCalls' # handlerCalls => emitted' = emitted + 1
       /\ emitted' # emitted =>
             /\ emitted' = emitted + 1
             /\ handlerCalls' = handlerCalls + 1
             /\ \/ running' = running
                \/ \E k \in InboundKinds : running' = Append(running, k)]_vars

\* C11 witness: two events were emitted, two handlers invoked, both still
\* in flight in the order of their emission.
C11_Witness ==
    /\ emitted = 2
    /\ handlerCalls = 2
    /\ running = <<"message", "group_join">>

\* The phase of the lifecycle controller, read off the program's state:
\* STARTING while start() is suspended at one of its awaits, RUNNING once it
\* has returned, STOPPING once a signal handler has called stop(),
\* TERMINATED once the process has exited.
Phase ==
    IF ~Alive THEN "TERMINATED"
    ELSE IF stopCalls > 0 THEN "STOPPING"
    ELSE IF startPc = "done" THEN "RUNNING"
    ELSE "STARTING"

AllowedTransitions ==
    {<<"STARTING", "RUNNING">>, <<"STARTING", "TERMINATED">>,
     <<"RUNNING", "STOPPING">>, <<"STOPPING", "TERMINATED">>}

\* C12: the lifecycle controller only moves STARTING -> RUNNING,
\* STARTING -> TERMINATED, RUNNING -> STOPPING and STOPPING -> TERMINATED,
\* and stop() is entered only from RUNNING, never while start() is still in
\* progress.
C12_LifecycleTransitions ==
    [][/\ Phase' # Phase => <<Phase, Phase'>> \in AllowedTransitions
       /\ stopCalls' > stopCalls => startPc = "done"]_vars

\* C13: inbound-event handler executions never overlap: no handler begins
\* while the handler of an earlier event is still suspended, so at most one
\* inbound callback is ever in flight.
C13_HandlersNeverOverlap == Len(running) <= 1

ReadyEmitted == \E r \in lifecycle : r.event = "ready"

\* C14: inbound events are dispatched to the external handlers, and
\* startScheduledTasks is invoked, only after the session client has
\* emitted `ready`.
C14_NothingBeforeReady ==
    /\ handlerCalls > 0 => ReadyEmitted
    /\ schedStarts > 0 => ReadyEmitted

\* C15: there is no retry and no reconnect: client.initialize() is called at
\* most once in the life of the process, and an `auth_failure` or
\* `disconnected` event brings about no call of start()'s stages, no stop(),
\* no client.destroy() and no process exit.
C15_NoRetryNoReconnect ==
    [][/\ initCalls' <= 1
       /\ (client' # client /\ client' \in {"auth_failure", "disconnected"}) =>
             /\ calls' = calls
             /\ stopCalls' = stopCalls
             /\ destroyCalls' = destroyCalls
             /\ exitCode' = exitCode
             /\ exitBy' = exitBy]_vars

\* C15 witness: the client was logged out after start() had returned; the
\* process lives on, initialize() was called once and stop() never.
C15_Witness ==
    /\ client = "disconnected"
    /\ startPc = "done"
    /\ Alive
    /\ initCalls = 1
    /\ stopCalls = 0

\* C16: once a signal handler has called stop(), startScheduledTasks is not
\* invoked any more.
C16_NoTasksAfterStop ==
    [][stopCalls > 0 => schedStarts' = schedStarts]_vars

\* C17: exit-status discipline: status 1 comes only from start()'s failure
\* path and status 0 only from a signal handler after stop() returned; the
\* process never exits because of a lifecycle event or a failed inbound
\* handler; startScheduledTasks is invoked at most once.
C17_ExitDiscipline ==
    /\ exitCode = 1 => (exitBy = "start_catch" /\ startPc = "failed")
    /\ exitCode = 0 => (exitBy = "signal" /\ Len(stopResults) > 0)
    /\ ~Alive => exitBy \in {"start_catch", "signal"}
    /\ schedStarts <= 1

====
